---- MODULE Spec2Model ----
(***************************************************************************)
(* Model of src/weather_fetcher.py: the hourly collection run (main), the  *)
(* coordinate resolver (get_city_coordinates), the stable sampler          *)
(* (fetch_stable_weather_data / fetch_hourly_weather_data) and the CSV     *)
(* store (weather_data.csv).                                               *)
(*                                                                         *)
(* Temperatures and humidities are integers in units of 1/20 (20.0 C is    *)
(* 400, 50.0 % is 1000); every sample value is even, so the mean of two    *)
(* samples is exact.  Floating-point rounding is not modelled.             *)
(***************************************************************************)
EXTENDS Integers, Sequences, FiniteSets, TLC

VARIABLES
    pc,                      \* control point of the process
    API_KEY,                 \* module global, line 12: TRUE iff the variable is set
    current_time,            \* main: int(time.time())
    previous_hour_timestamp, \* main: target hour
    idx,                     \* main: position in CITIES of the loop variable city_name
    lat, lon,                \* main: result of get_city_coordinates (None or a value)
    stable_record,           \* main: local, unbound until first assigned
    all_weather_data,        \* main: the batch of rows of this run
    attempts, timestamp,     \* fetch_stable_weather_data: arguments
    i,                       \* fetch_stable_weather_data: loop counter
    temperatures, humidities,\* fetch_stable_weather_data: accumulators
    wxLog,                   \* responses of the timemachine endpoint during this call
    geoCalls,                \* requests sent to the geocoding endpoint in this run
    fileExists, file,        \* DATA_FILE: existence and lines
    report,                  \* last terminal message of the run
    resolved, sampled,       \* history: per-city outcome of resolver / sampler in this run
    fileAtStart, existedAtStart  \* history: DATA_FILE when the run started

vars == <<pc, API_KEY, current_time, previous_hour_timestamp, idx, lat, lon,
          stable_record, all_weather_data, attempts, timestamp, i, temperatures,
          humidities, wxLog, geoCalls, fileExists, file, report, resolved, sampled,
          fileAtStart, existedAtStart>>

----------------------------------------------------------------------------
(* Bounds *)

MaxFileLines == 2
MaxHour == 1
MaxAttempts == 4

(* Program constants *)

HOUR == 3600
DefaultAttempts == 3

CITIES == <<"Cape Town", "Kigali", "Kampala">>

----------------------------------------------------------------------------
(* Python values *)

None == <<>>
Some(v) == <<v>>
IsNone(x) == x = <<>>
Val(x) == x[1]

Range(s) == {s[k] : k \in 1..Len(s)}

Unbound == [tag |-> "unbound", timestamp |-> 0, temperature |-> 0, humidity |-> 0]
NoRecord == [tag |-> "None", timestamp |-> 0, temperature |-> 0, humidity |-> 0]
Record(ts, t, h) == [tag |-> "dict", timestamp |-> ts, temperature |-> t, humidity |-> h]

----------------------------------------------------------------------------
(* Inputs: the clock and the responses of the two endpoints *)

Offsets == {0, 1, HOUR - 1}
NowSet == {h * HOUR + o : h \in 0..MaxHour, o \in Offsets}

Coord == [c \in Range(CITIES) |->
            IF c = "Cape Town" THEN [lat |-> -34, lon |-> 18]
            ELSE IF c = "Kigali" THEN [lat |-> -2, lon |-> 30]
            ELSE [lat |-> 0, lon |-> 33]]

GeoFailure(status) == [status |-> status, data |-> <<>>]
GeoResponses(c) == {GeoFailure("transport_error"), GeoFailure("http_error"),
                    [status |-> "json", data |-> <<>>],
                    [status |-> "json", data |-> <<Coord[c]>>]}

WxFailure(status) == [status |-> status, hasData |-> FALSE, data |-> <<>>]
WxOk(t, h) == [status |-> "json", hasData |-> TRUE,
               data |-> <<[temp |-> t, humidity |-> h]>>]
WxFailures == {WxFailure("transport_error"), WxFailure("http_error"),
               WxFailure("malformed"),
               [status |-> "json", hasData |-> FALSE, data |-> <<>>],
               [status |-> "json", hasData |-> TRUE, data |-> <<>>]}

\* responses seen by a run of main; SpecSampler below varies the values
MainWx == {WxFailure("transport_error"),
           [status |-> "json", hasData |-> TRUE, data |-> <<>>],
           WxOk(400, 1000)}

SamplerWx == WxFailures \cup
             {WxOk(396, 1000), WxOk(402, 960), WxOk(400, 1040),
              WxOk(380, 1000), WxOk(390, 1040), WxOk(410, 960), WxOk(420, 1000),
              WxOk(400, 1000)}

SamplerTimestamps == {0, HOUR}

----------------------------------------------------------------------------
(* Pure functions *)

\* get_city_coordinates: (lat, lon) of the first match, or (None, None)
get_city_coordinates(resp) ==
    IF resp.status = "json"
    THEN IF Len(resp.data) > 0
         THEN <<Some(resp.data[1].lat), Some(resp.data[1].lon)>>
         ELSE <<None, None>>
    ELSE <<None, None>>

\* fetch_hourly_weather_data: the decoded body, or None on a RequestException
fetch_hourly_weather_data(resp) ==
    IF resp.status = "json"
    THEN Some([hasData |-> resp.hasData, data |-> resp.data])
    ELSE None

\* if weather_data and "data" in weather_data and weather_data["data"]
YieldsData(weather_data) ==
    /\ ~IsNone(weather_data)
    /\ Val(weather_data).hasData
    /\ Len(Val(weather_data).data) > 0

\* median without the sort
median_Unsorted(data) ==
    LET n == Len(data)
    IN IF n % 2 = 1
       THEN data[(n \div 2) + 1]
       ELSE (data[n \div 2] + data[(n \div 2) + 1]) \div 2

sorted(data) == SortSeq(data, LAMBDA a, b : a < b)

\* statistics.median, as called on the accumulators
median(data) ==
    LET s == sorted(data)
        n == Len(s)
    IN IF n % 2 = 1
       THEN s[(n \div 2) + 1]
       ELSE (s[n \div 2] + s[(n \div 2) + 1]) \div 2

\* the current hour instead of the previous one
PreviousHour_Current(t) == t - (t % HOUR)

\* current_time - (current_time % 3600) - 3600
PreviousHour(t) == t - (t % HOUR) - HOUR

Header == [kind |-> "header",
           columns |-> <<"timestamp", "city", "temperature", "humidity">>]
DataLine(row) == [kind |-> "data", timestamp |-> row.timestamp, city |-> row.city,
                  temperature |-> row.temperature, humidity |-> row.humidity]
DataLines(rows) == [k \in 1..Len(rows) |-> DataLine(rows[k])]

\* DataFrame.to_csv(DATA_FILE, mode, header, index=False)
to_csv(old, rows, mode, header) ==
    (IF mode = "a" THEN old ELSE <<>>)
      \o (IF header THEN <<Header>> ELSE <<>>)
      \o DataLines(rows)

----------------------------------------------------------------------------
(* Initial states *)

Pending == [c \in Range(CITIES) |-> "pending"]

Locals ==
    /\ current_time = 0
    /\ previous_hour_timestamp = 0
    /\ idx = 1
    /\ lat = None
    /\ lon = None
    /\ stable_record = Unbound
    /\ all_weather_data = <<>>
    /\ geoCalls = 0
    /\ report = "none"
    /\ resolved = Pending
    /\ sampled = Pending

Init ==
    /\ pc = "idle"
    /\ API_KEY = FALSE
    /\ Locals
    /\ attempts = DefaultAttempts
    /\ timestamp = 0
    /\ i = 0
    /\ temperatures = <<>>
    /\ humidities = <<>>
    /\ wxLog = <<>>
    /\ fileExists = FALSE
    /\ file = <<>>
    /\ fileAtStart = <<>>
    /\ existedAtStart = FALSE

\* a call fetch_stable_weather_data(lat, lon, timestamp, attempts) on its own
InitSampler ==
    /\ pc = "sampling"
    /\ API_KEY = TRUE
    /\ Locals
    /\ attempts \in 1..MaxAttempts
    /\ timestamp \in SamplerTimestamps
    /\ i = 0
    /\ temperatures = <<>>
    /\ humidities = <<>>
    /\ wxLog = <<>>
    /\ fileExists = FALSE
    /\ file = <<>>
    /\ fileAtStart = <<>>
    /\ existedAtStart = FALSE

----------------------------------------------------------------------------
(* main *)

samplerVars == <<attempts, timestamp, i, temperatures, humidities, wxLog>>
storeVars == <<fileExists, file>>

\* a run that does not check the credential
StartRun_NoKeyCheck(now, key) ==
    /\ pc \in {"idle", "done", "crashed"}
    /\ Len(file) <= MaxFileLines
    /\ API_KEY' = key
    /\ idx' = 1
    /\ lat' = None
    /\ lon' = None
    /\ stable_record' = Unbound
    /\ all_weather_data' = <<>>
    /\ geoCalls' = 0
    /\ resolved' = Pending
    /\ sampled' = Pending
    /\ fileAtStart' = file
    /\ existedAtStart' = fileExists
    /\ report' = "none"
    /\ pc' = "resolve"
    /\ current_time' = now
    /\ previous_hour_timestamp' = PreviousHour(now)
    /\ attempts' = DefaultAttempts
    /\ timestamp' = 0
    /\ i' = 0
    /\ temperatures' = <<>>
    /\ humidities' = <<>>
    /\ wxLog' = <<>>
    /\ UNCHANGED storeVars

\* lines 187-199: a new process; the credential check and the target hour.
\* New runs start only while the file is short, which keeps the file bounded.
StartRun(now, key) ==
    /\ pc \in {"idle", "done", "crashed"}
    /\ Len(file) <= MaxFileLines
    /\ API_KEY' = key
    /\ idx' = 1
    /\ lat' = None
    /\ lon' = None
    /\ stable_record' = Unbound
    /\ all_weather_data' = <<>>
    /\ geoCalls' = 0
    /\ resolved' = Pending
    /\ sampled' = Pending
    /\ fileAtStart' = file
    /\ existedAtStart' = fileExists
    /\ IF ~key
       THEN /\ report' = "config_error"
            /\ pc' = "done"
            /\ current_time' = 0
            /\ previous_hour_timestamp' = 0
       ELSE /\ report' = "none"
            /\ pc' = "resolve"
            /\ current_time' = now
            /\ previous_hour_timestamp' = PreviousHour(now)
    /\ attempts' = DefaultAttempts
    /\ timestamp' = 0
    /\ i' = 0
    /\ temperatures' = <<>>
    /\ humidities' = <<>>
    /\ wxLog' = <<>>
    /\ UNCHANGED storeVars

\* lines 201-206: resolve the city; on success enter the sampler
Resolve(resp) ==
    /\ pc = "resolve"
    /\ geoCalls' = geoCalls + 1
    /\ LET c == CITIES[idx]
           r == get_city_coordinates(resp)
       IN /\ lat' = r[1]
          /\ lon' = r[2]
          /\ IF ~IsNone(r[1]) /\ ~IsNone(r[2])
             THEN /\ resolved' = [resolved EXCEPT ![c] = "ok"]
                  /\ pc' = "sampling"
                  /\ attempts' = DefaultAttempts
                  /\ timestamp' = previous_hour_timestamp
                  /\ i' = 0
                  /\ temperatures' = <<>>
                  /\ humidities' = <<>>
                  /\ wxLog' = <<>>
             ELSE /\ resolved' = [resolved EXCEPT ![c] = "fail"]
                  /\ pc' = "judge"
                  /\ UNCHANGED samplerVars
    /\ UNCHANGED <<API_KEY, current_time, previous_hour_timestamp, idx,
                   stable_record, all_weather_data, storeVars, report, sampled,
                   fileAtStart, existedAtStart>>

\* a sampling loop that stops at the first failed query
Attempt_AbortOnFailure(resp) ==
    /\ pc = "sampling"
    /\ i < attempts
    /\ wxLog' = Append(wxLog, resp)
    /\ LET weather_data == fetch_hourly_weather_data(resp)
       IN IF YieldsData(weather_data)
          THEN LET record == Val(weather_data).data[1]
               IN /\ temperatures' = Append(temperatures, record.temp)
                  /\ humidities' = Append(humidities, record.humidity)
                  /\ i' = i + 1
          ELSE /\ UNCHANGED <<temperatures, humidities>>
               /\ i' = attempts
    /\ UNCHANGED <<pc, API_KEY, current_time, previous_hour_timestamp, idx,
                   lat, lon, stable_record, all_weather_data, attempts, timestamp,
                   geoCalls, storeVars, report, resolved, sampled, fileAtStart,
                   existedAtStart>>

\* lines 66-75: one iteration of the sampling loop
Attempt(resp) ==
    /\ pc = "sampling"
    /\ i < attempts
    /\ wxLog' = Append(wxLog, resp)
    /\ LET weather_data == fetch_hourly_weather_data(resp)
       IN IF YieldsData(weather_data)
          THEN LET record == Val(weather_data).data[1]
               IN /\ temperatures' = Append(temperatures, record.temp)
                  /\ humidities' = Append(humidities, record.humidity)
          ELSE UNCHANGED <<temperatures, humidities>>
    /\ i' = i + 1
    /\ UNCHANGED <<pc, API_KEY, current_time, previous_hour_timestamp, idx,
                   lat, lon, stable_record, all_weather_data, attempts, timestamp,
                   geoCalls, storeVars, report, resolved, sampled, fileAtStart,
                   existedAtStart>>

\* a sampler that demands every attempt to succeed
Reduce_Strict ==
    /\ pc = "sampling"
    /\ i = attempts
    /\ LET result == IF Len(temperatures) < attempts \/ Len(humidities) < attempts
                     THEN NoRecord
                     ELSE Record(timestamp, median(temperatures), median(humidities))
       IN /\ stable_record' = result
          /\ sampled' = [sampled EXCEPT ![CITIES[idx]] =
                            IF result.tag = "dict" THEN "ok" ELSE "fail"]
    /\ pc' = "judge"
    /\ UNCHANGED <<API_KEY, current_time, previous_hour_timestamp, idx, lat, lon,
                   all_weather_data, samplerVars, geoCalls, storeVars, report,
                   resolved, fileAtStart, existedAtStart>>

\* lines 77-92 and the assignment of line 206
Reduce ==
    /\ pc = "sampling"
    /\ i = attempts
    /\ LET result == IF Len(temperatures) = 0 \/ Len(humidities) = 0
                     THEN NoRecord
                     ELSE Record(timestamp, median(temperatures), median(humidities))
       IN /\ stable_record' = result
          /\ sampled' = [sampled EXCEPT ![CITIES[idx]] =
                            IF result.tag = "dict" THEN "ok" ELSE "fail"]
    /\ pc' = "judge"
    /\ UNCHANGED <<API_KEY, current_time, previous_hour_timestamp, idx, lat, lon,
                   all_weather_data, samplerVars, geoCalls, storeVars, report,
                   resolved, fileAtStart, existedAtStart>>

\* lines 208-221: if stable_record: append the row; next city
Judge ==
    /\ pc = "judge"
    /\ IF stable_record.tag = "unbound"
       THEN \* UnboundLocalError: the process dies with a traceback
            /\ pc' = "crashed"
            /\ report' = "traceback"
            /\ UNCHANGED <<idx, all_weather_data>>
       ELSE /\ all_weather_data' =
                 IF stable_record.tag = "dict"
                 THEN Append(all_weather_data,
                             [timestamp |-> stable_record.timestamp,
                              city |-> CITIES[idx],
                              temperature |-> stable_record.temperature,
                              humidity |-> stable_record.humidity])
                 ELSE all_weather_data
            /\ IF idx < Len(CITIES)
               THEN idx' = idx + 1 /\ pc' = "resolve"
               ELSE idx' = idx /\ pc' = "persist"
            /\ UNCHANGED report
    /\ UNCHANGED <<API_KEY, current_time, previous_hour_timestamp, lat, lon,
                   stable_record, samplerVars, geoCalls, storeVars, resolved, sampled,
                   fileAtStart, existedAtStart>>

\* a store write that repeats the header on every append
Persist_AlwaysHeader ==
    /\ pc = "persist"
    /\ pc' = "done"
    /\ IF Len(all_weather_data) = 0
       THEN /\ report' = "no_data"
            /\ UNCHANGED storeVars
       ELSE IF fileExists
            THEN /\ file' = to_csv(file, all_weather_data, "a", TRUE)
                 /\ fileExists' = TRUE
                 /\ report' = "appended"
            ELSE /\ file' = to_csv(file, all_weather_data, "w", TRUE)
                 /\ fileExists' = TRUE
                 /\ report' = "created"
    /\ UNCHANGED <<API_KEY, current_time, previous_hour_timestamp, idx, lat, lon,
                   stable_record, all_weather_data, samplerVars, geoCalls, resolved,
                   sampled, fileAtStart, existedAtStart>>

\* a store write without the empty-batch return
Persist_NoEmptyCheck ==
    /\ pc = "persist"
    /\ pc' = "done"
    /\ IF fileExists
       THEN /\ file' = to_csv(file, all_weather_data, "a", FALSE)
            /\ fileExists' = TRUE
            /\ report' = "appended"
       ELSE /\ file' = to_csv(file, all_weather_data, "w", TRUE)
            /\ fileExists' = TRUE
            /\ report' = "created"
    /\ UNCHANGED <<API_KEY, current_time, previous_hour_timestamp, idx, lat, lon,
                   stable_record, all_weather_data, samplerVars, geoCalls, resolved,
                   sampled, fileAtStart, existedAtStart>>

\* lines 224-235: the store write
Persist ==
    /\ pc = "persist"
    /\ pc' = "done"
    /\ IF Len(all_weather_data) = 0
       THEN /\ report' = "no_data"
            /\ UNCHANGED storeVars
       ELSE IF fileExists
            THEN /\ file' = to_csv(file, all_weather_data, "a", FALSE)
                 /\ fileExists' = TRUE
                 /\ report' = "appended"
            ELSE /\ file' = to_csv(file, all_weather_data, "w", TRUE)
                 /\ fileExists' = TRUE
                 /\ report' = "created"
    /\ UNCHANGED <<API_KEY, current_time, previous_hour_timestamp, idx, lat, lon,
                   stable_record, all_weather_data, samplerVars, geoCalls, resolved,
                   sampled, fileAtStart, existedAtStart>>

Next ==
    \/ \E now \in NowSet, key \in BOOLEAN : StartRun(now, key)
    \/ \E resp \in GeoResponses(CITIES[idx]) : Resolve(resp)
    \/ \E resp \in MainWx : Attempt(resp)
    \/ Reduce
    \/ Judge
    \/ Persist

Spec == Init /\ [][Next]_vars

NextSampler ==
    \/ \E resp \in SamplerWx : Attempt(resp)
    \/ Reduce

SpecSampler == InitSampler /\ [][NextSampler]_vars

TypeOK ==
    /\ pc \in {"idle", "resolve", "sampling", "judge", "persist", "done", "crashed"}
    /\ idx \in 1..Len(CITIES)
    /\ i \in 0..attempts
    /\ Len(temperatures) = Len(humidities)

----------------------------------------------------------------------------
(* Properties *)

IsPrefix(s, t) == Len(s) <= Len(t) /\ SubSeq(t, 1, Len(s)) = s

CityIndex(c) == CHOOSE k \in 1..Len(CITIES) : CITIES[k] = c

\* positions of the cities whose resolution and sampling both succeeded in this run
Succeeded == {k \in 1..Len(CITIES) :
                 resolved[CITIES[k]] = "ok" /\ sampled[CITIES[k]] = "ok"}

\* a response of the timemachine endpoint that carries a record
IsSample(resp) == resp.status = "json" /\ resp.hasData /\ Len(resp.data) > 0
SampleIndexes == {k \in 1..Len(wxLog) : IsSample(wxLog[k])}

\* C1: when the city loop of a run is over, the batch has one row per city
\* whose resolution and sampling both succeeded, in the order of CITIES.
C1_RowsAreSucceededCities ==
    pc \in {"persist", "done"} =>
        /\ Len(all_weather_data) = Cardinality(Succeeded)
        /\ \A k \in 1..Len(all_weather_data) :
              CityIndex(all_weather_data[k].city) \in Succeeded
        /\ \A j, k \in 1..Len(all_weather_data) :
              j < k => CityIndex(all_weather_data[j].city)
                         < CityIndex(all_weather_data[k].city)

\* C2: a city whose resolution failed in this run has no row in the batch.
C2_NoRowForUnresolvedCity ==
    \A c \in Range(CITIES) :
        resolved[c] = "fail" =>
            \A k \in 1..Len(all_weather_data) : all_weather_data[k].city # c

\* C3: with the credential present a run never aborts; it ends with every
\* city processed, by writing the batch or by reporting that nothing was fetched.
C3_RunCompletesCityLoop ==
    API_KEY =>
        /\ pc # "crashed"
        /\ pc = "done" =>
              /\ \A c \in Range(CITIES) : resolved[c] # "pending"
              /\ report \in {"no_data", "appended", "created"}

\* C4: the sampler returns None exactly when no attempt yielded data;
\* otherwise it returns a reading with the given timestamp, and with a single
\* successful attempt the reading carries that sample's values.
C4_NoneIffNoSample ==
    pc = "judge" =>
        /\ stable_record.tag = "None" <=> SampleIndexes = {}
        /\ SampleIndexes # {} =>
              /\ stable_record.tag = "dict"
              /\ stable_record.timestamp = timestamp
        /\ \A k \in SampleIndexes :
              SampleIndexes = {k} =>
                  /\ stable_record.temperature = wxLog[k].data[1].temp
                  /\ stable_record.humidity = wxLog[k].data[1].humidity

C4_Witness ==
    /\ pc = "judge"
    /\ attempts >= 3
    /\ Cardinality(SampleIndexes) = 1
    /\ stable_record.tag = "dict"
    /\ stable_record.temperature = 396

SamplesOf(log) == SelectSeq(log, IsSample)

KthSmallest(data, k) ==
    CHOOSE v \in Range(data) :
        /\ Cardinality({j \in 1..Len(data) : data[j] < v}) < k
        /\ Cardinality({j \in 1..Len(data) : data[j] <= v}) >= k

IsMedianOf(m, data) ==
    LET n == Len(data)
    IN IF n % 2 = 1
       THEN m = KthSmallest(data, (n + 1) \div 2)
       ELSE 2 * m = KthSmallest(data, n \div 2) + KthSmallest(data, (n \div 2) + 1)

\* C6: the returned temperature is the median of the collected temperatures
\* and the returned humidity the median of the collected humidities: the
\* middle value for an odd count, the mean of the two middle values for an
\* even count.
C6_ReadingIsMedian ==
    pc = "judge" /\ Len(temperatures) > 0 /\ stable_record.tag = "dict" =>
        /\ IsMedianOf(stable_record.temperature, temperatures)
        /\ IsMedianOf(stable_record.humidity, humidities)
        /\ temperatures = <<396, 402, 400>> => stable_record.temperature = 400
        /\ temperatures = <<380, 390, 410, 420>> => stable_record.temperature = 400

C6_Witness ==
    /\ pc = "judge"
    /\ temperatures = <<410, 380, 420, 390>>
    /\ humidities = <<960, 1000, 1000, 1040>>
    /\ stable_record.temperature = 400
    /\ stable_record.humidity = 1000

\* C7: the target hour is a multiple of 3600, it is the hour before the one
\* that contains current_time, and every row of the run carries it.
C7_TargetIsPreviousHour ==
    API_KEY /\ pc # "idle" =>
        /\ previous_hour_timestamp % HOUR = 0
        /\ previous_hour_timestamp + HOUR <= current_time
        /\ current_time < previous_hour_timestamp + 2 * HOUR
        /\ previous_hour_timestamp < current_time - (current_time % HOUR)
        /\ previous_hour_timestamp < current_time
        /\ \A k \in 1..Len(all_weather_data) :
              all_weather_data[k].timestamp = previous_hour_timestamp
        /\ pc = "done" /\ report \in {"appended", "created"} =>
              \A k \in (Len(fileAtStart) + 1)..Len(file) :
                  file[k].kind = "data" => file[k].timestamp = previous_hour_timestamp

C7_Witness ==
    /\ API_KEY
    /\ pc = "done"
    /\ report = "created"
    /\ current_time = 2 * HOUR - 1
    /\ previous_hour_timestamp = 0
    /\ Len(all_weather_data) = Len(CITIES)

Headers(lines) == {k \in 1..Len(lines) : lines[k].kind = "header"}

C8_StoreShape ==
    /\ fileExists => Headers(file) = {1}
    /\ ~fileExists => file = <<>>
    /\ pc = "done" /\ report = "created" =>
          /\ ~existedAtStart
          /\ Len(all_weather_data) > 0
          /\ file = <<Header>> \o DataLines(all_weather_data)
    /\ pc = "done" /\ report = "appended" =>
          /\ existedAtStart
          /\ Len(all_weather_data) > 0
          /\ file = fileAtStart \o DataLines(all_weather_data)

\* C8: a write to a missing file leaves one header line and the N rows; a
\* write to an existing file adds the N rows after its lines and no header;
\* the file always has exactly one header, as its first line, and no step
\* alters or removes a line that is already in the file.
C8_AppendOnlyStore ==
    /\ []C8_StoreShape
    /\ [][IsPrefix(file, file')]_vars

C8_Witness ==
    /\ pc = "done"
    /\ report = "appended"
    /\ Len(fileAtStart) = 2
    /\ Len(all_weather_data) = Len(CITIES)
    /\ Len(file) = 2 + Len(CITIES)

\* C9: a run whose batch is empty after the city loop writes nothing: the
\* file is neither created nor changed.
C9_EmptyBatchWritesNothing ==
    pc = "done" /\ API_KEY /\ Len(all_weather_data) = 0 =>
        /\ report = "no_data"
        /\ fileExists = existedAtStart
        /\ file = fileAtStart

C9_Witness ==
    /\ pc = "done"
    /\ API_KEY
    /\ Len(all_weather_data) = 0
    /\ \A c \in Range(CITIES) : resolved[c] = "ok" /\ sampled[c] = "fail"
    /\ ~fileExists

\* C10: without the credential the run reports the misconfiguration and
\* ends at once: no geocoding or weather query, no change to the store.
C10_NoCredentialNoRun ==
    ~API_KEY =>
        /\ pc \in {"idle", "done"}
        /\ pc = "done" =>
              /\ report = "config_error"
              /\ geoCalls = 0
              /\ Len(wxLog) = 0
              /\ Len(all_weather_data) = 0
              /\ fileExists = existedAtStart
              /\ file = fileAtStart

C10_Witness ==
    /\ ~API_KEY
    /\ pc = "done"
    /\ report = "config_error"
    /\ fileExists
    /\ file = fileAtStart

====
